---- MODULE Spec2Model ----
(***************************************************************************)
(* Country cache service: the refresh pipeline (fetch, bulk rate           *)
(* resolution, enrichment, delete+insert replace, status, top-5, summary   *)
(* image) of app/application/services.py over the adapters of              *)
(* app/infrastructure/repositories.py, and the read/delete endpoints of    *)
(* app/presentation/api/router.py.                                         *)
(*                                                                         *)
(* Python's Optional values are modelled as tuples: None is <<>> and a     *)
(* present value v is <<v>>.  The services await their ports               *)
(* (services.py:27, :115); a port call is modelled as an awaitable whose   *)
(* result is what the adapter method computes.  The refresh requests are   *)
(* coroutines of one event loop (one server process), the other endpoints  *)
(* run in its threadpool.  Every request has its own database session;     *)
(* the store variable is the committed content of the countries table.     *)
(***************************************************************************)
EXTENDS Integers, Sequences, FiniteSets, TLC

\* ---------------------------------------------------------------- bounds
NumWorkers == 2
MaxCycles == 2
MaxClock == 1
MaxRawLen == 2

\* ------------------------------------------------------ program constants
TopN == 5

None == <<>>
Some(v) == <<v>>

Workers == 1..NumWorkers

\* --------------------------------------------------- upstream data (inputs)
NoCurrency == [code |-> None]
Cur(c) == [code |-> Some(c)]

\* The fields requested from the catalog (repositories.py:33); capital and
\* flag are only passed through and are the same in every record of the model.
Raw(n, p, c, r) ==
    [name |-> n, population |-> p, currencies |-> c, region |-> r,
     capital |-> Some("Capital"), flag |-> Some("flag.svg")]

\* Raw records of the catalog service used by the system specification.
RecA == Raw(Some("A"), Some(1000), Some(<<Cur("XYZ")>>), Some("Africa"))
RecA2 == Raw(Some("A"), Some(2), None, Some("africa"))
RecA3 == Raw(Some("A"), Some(3), None, None)
RecB == Raw(Some("B"), Some(0), Some(<<Cur("usd")>>), None)
RecC == Raw(Some("C"), Some(4), Some(<<>>), Some("Asia"))

RawDataSets ==
    { <<RecA, RecB>>, <<RecA2, RecA3>>, <<RecC>> }

\* Every raw record over small field domains, for the enrichment specification.
RawNames == {None, Some(""), Some("A")}
RawPopulations == {None, Some(-5), Some(0), Some(1000)}
RawCurrencies ==
    { None, Some(<<>>), Some(<<Cur("XYZ")>>),
      Some(<<NoCurrency, Cur("XYZ")>>), Some(<<Cur("usd"), Cur("XYZ")>>),
      Some(<<Cur("USD")>>) }
RawRecords ==
    { Raw(n, p, c, None) : n \in RawNames, p \in RawPopulations, c \in RawCurrencies }

RECURSIVE SeqsUpTo(_, _)
SeqsUpTo(S, n) ==
    IF n = 0 THEN {<<>>}
    ELSE LET shorter == SeqsUpTo(S, n - 1)
         IN shorter \cup { Append(s, x) : s \in {t \in shorter : Len(t) = n - 1}, x \in S }

\* Responses of the catalog service to one GET: a network/HTTP error or a JSON list.
SourceResponses ==
    {[error |-> TRUE, json |-> <<>>]} \cup {[error |-> FALSE, json |-> d] : d \in RawDataSets}

\* Responses of the rate service to one GET.
RateCodes == {"USD", "XYZ"}
RateTables ==
    { [c \in RateCodes |-> IF c = "XYZ" THEN Some(2) ELSE Some(1)],
      [c \in RateCodes |-> IF c = "XYZ" THEN None ELSE Some(1)],
      [c \in RateCodes |-> IF c = "XYZ" THEN Some(0) ELSE Some(1)] }
RateResponses ==
    {[error |-> TRUE, result |-> "", rates |-> [c \in RateCodes |-> None]]}
    \cup {[error |-> FALSE, result |-> "error", rates |-> [c \in RateCodes |-> None]]}
    \cup {[error |-> FALSE, result |-> "success", rates |-> t] : t \in RateTables}

\* The values random.uniform(1000, 2000) is drawn from: a + (b - a) * random()
\* with random() in [0, 1), which rounds to b itself for the largest random(),
\* so both end points can be drawn.
Factors == {1000, 2000}

\* ----------------------------------------------------------- pure helpers
Upper(s) == CASE s = "usd" -> "USD" [] s = "xyz" -> "XYZ" [] OTHER -> s

Truthy(opt) == opt # None /\ opt[1] # ""

Raised == [raised |-> TRUE, value |-> 0]
Returned(v) == [raised |-> FALSE, value |-> v]

\* RestCountriesAdapter.fetch_all_countries_raw
fetch_all_countries_raw(response) ==
    IF response.error THEN <<>> ELSE response.json

\* OpenERAPIAdapter.get_exchange_rate
get_exchange_rate(target_code, response) ==
    IF response.error THEN Raised
    ELSE IF response.result # "success" THEN Raised
    ELSE IF target_code = "USD" THEN Returned(1)
    ELSE LET rate == IF Upper(target_code) \in DOMAIN response.rates
                     THEN response.rates[Upper(target_code)] ELSE None
         IN IF rate = None THEN Raised ELSE Returned(rate[1])

\* ------------------------------------------- FetchCountriesService.execute
\* Mutant of SkipRecord: population <= 0 instead of population < 0.
SkipRecord_nonpositive(item) ==
    ~Truthy(item.name) \/ item.population = None \/ item.population[1] <= 0

\* The condition of services.py:54 under which a raw record is skipped.
SkipRecord(item) ==
    ~Truthy(item.name) \/ item.population = None \/ item.population[1] < 0

\* Mutant of first_currency_code: the code of the first descriptor that has one.
first_currency_code_any(item) ==
    IF item.currencies = None THEN None
    ELSE LET coded == {j \in 1..Len(item.currencies[1]) : Truthy(item.currencies[1][j].code)}
         IN  IF coded = {} THEN None
             ELSE item.currencies[1][CHOOSE j \in coded : \A k \in coded : j <= k].code

\* services.py:34-35 and :63-64: the code of the first currency descriptor, if any.
first_currency_code(item) ==
    IF item.currencies # None /\ Len(item.currencies[1]) > 0
       /\ Truthy(item.currencies[1][1].code)
    THEN item.currencies[1][1].code
    ELSE None

\* services.py:29-35: the codes are collected over every raw record.
unique_currency_codes(raw_data) ==
    { first_currency_code(raw_data[i])[1] :
        i \in {j \in 1..Len(raw_data) : first_currency_code(raw_data[j]) # None} }

\* Mutant of gather_done: the wait ends with the first lookup that finishes
\* (return_when=FIRST_COMPLETED).
gather_done_first_completed(codes, results) == codes = {} \/ DOMAIN results # {}

\* services.py:115: the await of the gather ends when every task of the batch
\* has returned or raised.
gather_done(codes, results) == DOMAIN results = codes

\* Mutant of gather: return_exceptions left out, the first exception propagates.
gather_fail_fast(results) ==
    [raised |-> \E code \in DOMAIN results : results[code].raised, results |-> results]

\* asyncio.gather(*tasks, return_exceptions=True): exceptions come back as results.
gather(results) == [raised |-> FALSE, results |-> results]

\* services.py:117-124: a result that is an exception becomes None.
rates_from_results(results) ==
    [code \in DOMAIN results |->
        IF results[code].raised THEN None ELSE Some(results[code].value)]

\* entities.py:7-24: the entity; id is a fresh uuid, modelled as the pair
\* <<cycle, position>>, and last_refreshed_at is utcnow() at construction.
Country(id, name, population, currency_code, exchange_rate, estimated_gdp, capital, region, flag_url, now) ==
    [id |-> id, name |-> name, population |-> population,
     currency_code |-> currency_code, exchange_rate |-> exchange_rate,
     estimated_gdp |-> estimated_gdp, capital |-> capital, region |-> region,
     flag_url |-> flag_url, last_refreshed_at |-> now]

\* dict.get: the value under the key, None when the key is missing.
dict_get(d, key) == IF key \in DOMAIN d THEN d[key] ELSE None

\* Mutant of enrich_item: a record without a currency code gets no GDP at all.
enrich_item_no_currency_null(item, cached_rates, gdp_factor, now, id) ==
    LET currency_code == first_currency_code(item)
        rate == IF currency_code # None THEN dict_get(cached_rates, currency_code[1]) ELSE None
        population == item.population[1]
        gdp == IF currency_code = None \/ rate = None \/ rate[1] = 0 THEN None
               ELSE Some((population * gdp_factor) \div rate[1])
    IN  [raised |-> currency_code # None /\ rate # None /\ rate[1] = 0,
         country |-> Country(id, item.name[1], population, currency_code, rate, gdp,
                             item.capital, item.region, item.flag, now)]

\* Mutant of enrich_item: a code whose lookup failed gets the GDP 0.0 of the
\* records without a currency.
enrich_item_failed_rate_zero(item, cached_rates, gdp_factor, now, id) ==
    LET currency_code == first_currency_code(item)
        rate == IF currency_code # None THEN dict_get(cached_rates, currency_code[1]) ELSE None
        population == item.population[1]
        gdp == IF rate = None THEN Some(0)
               ELSE IF rate[1] = 0 THEN None
               ELSE Some((population * gdp_factor) \div rate[1])
    IN  [raised |-> rate # None /\ rate[1] = 0,
         country |-> Country(id, item.name[1], population, currency_code, rate, gdp,
                             item.capital, item.region, item.flag, now)]

\* Mutant of enrich_item: the GDP is multiplied by the rate instead of divided.
enrich_item_multiplies(item, cached_rates, gdp_factor, now, id) ==
    LET currency_code == first_currency_code(item)
        rate == IF currency_code # None THEN dict_get(cached_rates, currency_code[1]) ELSE None
        population == item.population[1]
        gdp == IF currency_code = None THEN Some(0)
               ELSE IF rate = None \/ rate[1] = 0 THEN None
               ELSE Some((population * gdp_factor) * rate[1])
    IN  [raised |-> rate # None /\ rate[1] = 0,
         country |-> Country(id, item.name[1], population, currency_code, rate, gdp,
                             item.capital, item.region, item.flag, now)]

\* services.py:58-97 for one record that passed validation.
\* The division is exact for the populations, factors and rates of the model.
\* Mutant of enrich_item: a rate of 0 is stored with a null GDP, nothing is raised.
enrich_item_zero_rate_null(item, cached_rates, gdp_factor, now, id) ==
    LET currency_code == first_currency_code(item)
        rate == IF currency_code # None THEN dict_get(cached_rates, currency_code[1]) ELSE None
        population == item.population[1]
    IN  IF currency_code = None
        THEN [raised |-> FALSE,
              country |-> Country(id, item.name[1], population, None, None, Some(0),
                                  item.capital, item.region, item.flag, now)]
        ELSE IF rate = None
        THEN [raised |-> FALSE,
              country |-> Country(id, item.name[1], population, currency_code, None, None,
                                  item.capital, item.region, item.flag, now)]
        ELSE IF rate[1] = 0
        THEN [raised |-> FALSE,
              country |-> Country(id, item.name[1], population, currency_code, rate, None,
                                  item.capital, item.region, item.flag, now)]
        ELSE [raised |-> FALSE,
              country |-> Country(id, item.name[1], population, currency_code, rate,
                                  Some((population * gdp_factor) \div rate[1]),
                                  item.capital, item.region, item.flag, now)]

\* Mutant of enrich_item: the random factor enters the stored exchange rate.
enrich_item_random_rate(item, cached_rates, gdp_factor, now, id) ==
    LET currency_code == first_currency_code(item)
        rate == IF currency_code # None THEN dict_get(cached_rates, currency_code[1]) ELSE None
        population == item.population[1]
    IN  IF currency_code = None
        THEN [raised |-> FALSE,
              country |-> Country(id, item.name[1], population, None, None, Some(0),
                                  item.capital, item.region, item.flag, now)]
        ELSE IF rate = None
        THEN [raised |-> FALSE,
              country |-> Country(id, item.name[1], population, currency_code, None, None,
                                  item.capital, item.region, item.flag, now)]
        ELSE IF rate[1] = 0
        THEN [raised |-> TRUE,
              country |-> Country(id, item.name[1], population, currency_code, rate, None,
                                  item.capital, item.region, item.flag, now)]
        ELSE [raised |-> FALSE,
              country |-> Country(id, item.name[1], population, currency_code,
                                  Some((rate[1] * gdp_factor) \div 1000),
                                  Some((population * gdp_factor) \div rate[1]),
                                  item.capital, item.region, item.flag, now)]

enrich_item(item, cached_rates, gdp_factor, now, id) ==
    LET currency_code == first_currency_code(item)
        rate == IF currency_code # None THEN dict_get(cached_rates, currency_code[1]) ELSE None
        population == item.population[1]
    IN  IF currency_code = None
        THEN [raised |-> FALSE,
              country |-> Country(id, item.name[1], population, None, None, Some(0),
                                  item.capital, item.region, item.flag, now)]
        ELSE IF rate = None
        THEN [raised |-> FALSE,
              country |-> Country(id, item.name[1], population, currency_code, None, None,
                                  item.capital, item.region, item.flag, now)]
        ELSE IF rate[1] = 0
        THEN [raised |-> TRUE,
              country |-> Country(id, item.name[1], population, currency_code, rate, None,
                                  item.capital, item.region, item.flag, now)]
        ELSE [raised |-> FALSE,
              country |-> Country(id, item.name[1], population, currency_code, rate,
                                  Some((population * gdp_factor) \div rate[1]),
                                  item.capital, item.region, item.flag, now)]

\* Whether services.py:78 draws a factor for this record.
DrawsFactor(item, cached_rates) ==
    /\ ~SkipRecord(item)
    /\ first_currency_code(item) # None
    /\ dict_get(cached_rates, first_currency_code(item)[1]) # None

\* Mutant of enrich_from: a record whose rate lookup failed is skipped like an
\* invalid one.
RECURSIVE enrich_from_drops_unrated(_, _, _, _, _, _)
enrich_from_drops_unrated(raw_data, cached_rates, factors, stamps, cycle, i) ==
    IF i > Len(raw_data) THEN [raised |-> FALSE, countries |-> <<>>]
    ELSE IF \/ SkipRecord(raw_data[i])
            \/ /\ first_currency_code(raw_data[i]) # None
               /\ dict_get(cached_rates, first_currency_code(raw_data[i])[1]) = None
    THEN enrich_from_drops_unrated(raw_data, cached_rates, factors, stamps, cycle, i + 1)
    ELSE LET one == enrich_item(raw_data[i], cached_rates, factors[i], stamps[i], <<cycle, i>>)
             rest == enrich_from_drops_unrated(raw_data, cached_rates, factors, stamps,
                                               cycle, i + 1)
         IN IF one.raised \/ rest.raised
            THEN [raised |-> TRUE, countries |-> <<>>]
            ELSE [raised |-> FALSE, countries |-> <<one.country>> \o rest.countries]

\* services.py:48-99: the second pass, from position i on.
RECURSIVE enrich_from(_, _, _, _, _, _)
enrich_from(raw_data, cached_rates, factors, stamps, cycle, i) ==
    IF i > Len(raw_data) THEN [raised |-> FALSE, countries |-> <<>>]
    ELSE IF SkipRecord(raw_data[i])
    THEN enrich_from(raw_data, cached_rates, factors, stamps, cycle, i + 1)
    ELSE LET one == enrich_item(raw_data[i], cached_rates, factors[i], stamps[i], <<cycle, i>>)
             rest == enrich_from(raw_data, cached_rates, factors, stamps, cycle, i + 1)
         IN IF one.raised \/ rest.raised
            THEN [raised |-> TRUE, countries |-> <<>>]
            ELSE [raised |-> FALSE, countries |-> <<one.country>> \o rest.countries]

\* The random factors and clock readings one run of the second pass can see:
\* a factor per record that draws one, a reading per record that is built,
\* readings never decreasing and never before the current clock.
FactorChoices(raw_data, cached_rates) ==
    { f \in [1..Len(raw_data) -> Factors \cup {0}] :
        \A i \in 1..Len(raw_data) : (f[i] # 0) <=> DrawsFactor(raw_data[i], cached_rates) }

StampChoices(raw_data, now) ==
    { t \in [1..Len(raw_data) -> now..MaxClock] :
        /\ \A i \in 1..Len(raw_data) : SkipRecord(raw_data[i]) => t[i] = now
        /\ \A i, j \in 1..Len(raw_data) : i < j => t[i] <= t[j] }

\* ----------------------------------------------------- SQLCountryRepository
\* repositories.py:161-174: a field-by-field copy of the entity into a table row.
to_model(entity) ==
    [id |-> entity.id, name |-> entity.name, population |-> entity.population,
     currency_code |-> entity.currency_code, exchange_rate |-> entity.exchange_rate,
     estimated_gdp |-> entity.estimated_gdp, capital |-> entity.capital,
     region |-> entity.region, flag_url |-> entity.flag_url,
     last_refreshed_at |-> entity.last_refreshed_at]

\* Mutant of ViolatesUniqueName: the column is not declared unique.
ViolatesUniqueName_never(rows, models) == FALSE

\* models.py:13: name = Column(String, unique=True, ...).  The INSERT of
\* bulk_save_objects is rejected when two rows would carry the same name.
ViolatesUniqueName(rows, models) ==
    \/ \E i, j \in 1..Len(models) : i # j /\ models[i].name = models[j].name
    \/ \E i \in 1..Len(models) : \E r \in rows : r.name = models[i].name

\* Mutant of get_status: COUNT over a nullable column skips its NULLs.
get_status_count_gdp(rows) ==
    [total |-> Cardinality({r \in rows : r.estimated_gdp # None}),
     last |-> IF rows = {} THEN None
              ELSE Some(CHOOSE t \in {r.last_refreshed_at : r \in rows} :
                            \A r \in rows : r.last_refreshed_at <= t)]

\* Mutant of delete_all: the DELETE is left out of save_countries.
delete_all_skipped(rows) == rows

\* repositories.py:109: query(CountryModel).delete() leaves no row.
delete_all(rows) == {}

\* Mutant of get_status: MAX over the empty table coalesced to the epoch.
get_status_coalesced(rows) ==
    [total |-> Cardinality(rows),
     last |-> IF rows = {} THEN Some(0)
              ELSE Some(CHOOSE t \in {r.last_refreshed_at : r \in rows} :
                            \A r \in rows : r.last_refreshed_at <= t)]

\* repositories.py:125-138: COUNT(id) and MAX(last_refreshed_at) over the table.
get_status(rows) ==
    [total |-> Cardinality(rows),
     last |-> IF rows = {} THEN None
              ELSE Some(CHOOSE t \in {r.last_refreshed_at : r \in rows} :
                            \A r \in rows : r.last_refreshed_at <= t)]

NoFilters == [region |-> None, currency |-> None]

\* repositories.py:62-65: the filters compare with ==.
MatchesFilters(row, filters) ==
    /\ filters.region # None => row.region = filters.region
    /\ filters.currency # None => row.currency_code = filters.currency

\* repositories.py:68-72: whether row a may come before row b in the result.
\* gdp_desc is ORDER BY estimated_gdp DESC NULLS FIRST; without an ORDER BY
\* the database may return the rows in any order.
MayPrecede(sort_by, a, b) ==
    IF sort_by = Some("gdp_desc")
    THEN \/ a.estimated_gdp = None
         \/ b.estimated_gdp # None /\ a.estimated_gdp[1] >= b.estimated_gdp[1]
    ELSE IF sort_by = Some("pop_desc")
    THEN a.population >= b.population
    ELSE TRUE

\* repositories.py:58-77: the result lists query.all() can return.
get_countries(rows, filters, sort_by) ==
    LET selected == {r \in rows : MatchesFilters(r, filters)}
        n == Cardinality(selected)
    IN { s \in [1..n -> selected] :
           /\ \A i, j \in 1..n : i # j => s[i] # s[j]
           /\ \A i, j \in 1..n : i < j => MayPrecede(sort_by, s[i], s[j]) }

\* repositories.py:80-84: the rows WHERE name == :name; first() returns one of them.
get_country_by_name(rows, name) == {r \in rows : r.name = name}

\* Mutant of delete_country_by_name: the DELETE has lost its WHERE clause.
delete_country_by_name_unfiltered(rows, name) == {}

\* repositories.py:87-101: the rows left by DELETE ... WHERE name == :name.
delete_country_by_name(rows, name) == {r \in rows : r.name # name}

\* services.py:178-182: name and estimated_gdp of the first five rows.
top_gdp_of(all_countries) ==
    [i \in 1..(IF Len(all_countries) < TopN THEN Len(all_countries) ELSE TopN) |->
        [name |-> all_countries[i].name, estimated_gdp |-> all_countries[i].estimated_gdp]]

\* repositories.py:241-308: what the saved summary.png shows.
generate_summary_image(total_countries, top_gdp_countries, last_refreshed_at) ==
    [total |-> total_countries, top |-> top_gdp_countries, last |-> last_refreshed_at]

\* The fields of a row that neither the random GDP factor, the fresh id nor
\* the clock enters.
non_random_fields(model) ==
    [name |-> model.name, population |-> model.population,
     currency_code |-> model.currency_code, exchange_rate |-> model.exchange_rate,
     capital |-> model.capital, region |-> model.region, flag_url |-> model.flag_url]

\* What is remembered of a completed replace: the catalog data and lookup
\* results it was computed from, the count it returned, the non-random fields
\* of the rows it inserted, and whether the replace before it had the same
\* catalog data and lookup results.
LastReplace(before, raw_data, results, models_to_save) ==
    [raw |-> raw_data, results |-> results, count |-> Len(models_to_save),
     rows |-> {non_random_fields(models_to_save[i]) : i \in 1..Len(models_to_save)},
     repeats |-> before # None /\ before[1].raw = raw_data /\ before[1].results = results]

\* -------------------------------------------------------------------- state
VARIABLES
    store,        \* committed rows of the countries table
    image,        \* cache/summary.png: None until generated
    clock,        \* datetime.utcnow()
    cycles,       \* refresh cycles started so far
    pc,           \* per refresh worker: where its RefreshCountriesService.execute is
    cyc,          \* per worker: the number of its current cycle
    raw,          \* per worker: raw_data
    src_failed,   \* per worker: whether the catalog GET of this cycle failed
    lookups,      \* per worker: outcome of each finished get_exchange_rate of this cycle
    cached_rates, \* per worker: cached_rates
    countries,    \* per worker: the enriched entities
    count,        \* per worker: the return value of save_countries
    status,       \* per worker: (total, last_refresh_time) read after the save
    top_gdp,      \* per worker: top_gdp
    disturbed,    \* per worker: another writer changed the table during this cycle
    lastOp,       \* the endpoint that answered last, "step" for an unfinished refresh
    resp,         \* its response
    prev          \* history: input and non-random result of the last completed replace

vars == <<store, image, clock, cycles, pc, cyc, raw, src_failed, lookups, cached_rates,
          countries, count, status, top_gdp, disturbed, lastOp, resp, prev>>

NoRates == [code \in {} |-> None]
NoStatus == [total |-> 0, last |-> None]
NoRequest == [name |-> "", region |-> None, currency |-> None, sort |-> None]
NoResp == [code |-> 0, error |-> "", total |-> 0, last |-> None, rows |-> <<>>,
           request |-> NoRequest]

Init ==
    /\ store = {}
    /\ image = None
    /\ clock = 0
    /\ cycles = 0
    /\ pc = [p \in Workers |-> "idle"]
    /\ cyc = [p \in Workers |-> 0]
    /\ raw = [p \in Workers |-> <<>>]
    /\ src_failed = [p \in Workers |-> FALSE]
    /\ lookups = [p \in Workers |-> NoRates]
    /\ cached_rates = [p \in Workers |-> NoRates]
    /\ countries = [p \in Workers |-> <<>>]
    /\ count = [p \in Workers |-> 0]
    /\ status = [p \in Workers |-> NoStatus]
    /\ top_gdp = [p \in Workers |-> <<>>]
    /\ disturbed = [p \in Workers |-> FALSE]
    /\ lastOp = "none"
    /\ resp = NoResp
    /\ prev = None

\* router.py:202 and services.py:25, :165: the refresh requests are coroutines
\* of one event loop.  A coroutine is suspended only in its awaits
\* (services.py:27, :115); from the return of the gather to its answer
\* (services.py:48-99, :170-193) it keeps the loop, and no other coroutine
\* runs.  The endpoints declared with def run in the threadpool at any time.
OnLoop(p) == pc[p] \in {"resolved", "enriched", "deleted", "saved", "status", "top"}
LoopFree(p) == \A q \in Workers \ {p} : ~OnLoop(q)

\* A step of a refresh that does not end it answers nothing yet.
RefreshStep == lastOp' = "step" /\ resp' = NoResp

\* A write to the table by worker p (or by the delete endpoint, p = 0) disturbs
\* the cycle of every other worker that is under way.
Disturb(p) ==
    disturbed' = [q \in Workers |-> disturbed[q] \/ (q # p /\ pc[q] # "idle")]

\* router.py:200-208: execute ends and POST /countries/refresh answers: 200 with
\* the count, or the exception propagates (a 500); the locals are gone.
Finish(p, error) ==
    /\ pc' = [pc EXCEPT ![p] = "idle"]
    /\ lastOp' = "refresh"
    /\ resp' = IF error = "" THEN [NoResp EXCEPT !.code = 200, !.total = count[p]]
               ELSE [NoResp EXCEPT !.code = 500, !.error = error]
    /\ cyc' = [cyc EXCEPT ![p] = 0]
    /\ src_failed' = [src_failed EXCEPT ![p] = FALSE]
    /\ count' = [count EXCEPT ![p] = 0]
    /\ disturbed' = [disturbed EXCEPT ![p] = FALSE]
    /\ raw' = [raw EXCEPT ![p] = <<>>]
    /\ lookups' = [lookups EXCEPT ![p] = NoRates]
    /\ cached_rates' = [cached_rates EXCEPT ![p] = NoRates]
    /\ countries' = [countries EXCEPT ![p] = <<>>]
    /\ status' = [status EXCEPT ![p] = NoStatus]
    /\ top_gdp' = [top_gdp EXCEPT ![p] = <<>>]
    /\ UNCHANGED prev

\* services.py:27-35: POST /countries/refresh starts; the catalog is fetched.
\* A new request is served by the lowest idle worker.
Fetch(p) ==
    /\ pc[p] = "idle"
    /\ LoopFree(p)
    /\ \A q \in Workers : q < p => pc[q] # "idle"
    /\ cycles < MaxCycles
    /\ \E response \in SourceResponses :
        /\ raw' = [raw EXCEPT ![p] = fetch_all_countries_raw(response)]
        /\ src_failed' = [src_failed EXCEPT ![p] = response.error]
    /\ cycles' = cycles + 1
    /\ cyc' = [cyc EXCEPT ![p] = cycles + 1]
    /\ pc' = [pc EXCEPT ![p] = "fetched"]
    /\ RefreshStep
    /\ UNCHANGED <<store, image, clock, lookups, cached_rates, countries, count, status,
                   top_gdp, disturbed, prev>>

\* services.py:113-115: the lookups of the collected codes are all under way
\* while the coroutine waits in the gather; one of them returns or raises.
LookupDone(p) ==
    /\ pc[p] = "fetched"
    /\ LoopFree(p)
    /\ \E code \in unique_currency_codes(raw[p]) \ DOMAIN lookups[p] :
       \E response \in RateResponses :
        lookups' = [lookups EXCEPT ![p] =
                      [c \in DOMAIN lookups[p] \cup {code} |->
                          IF c = code THEN get_exchange_rate(code, response)
                          ELSE lookups[p][c]]]
    /\ RefreshStep
    /\ UNCHANGED <<store, image, clock, cycles, pc, cyc, raw, src_failed, cached_rates,
                   countries, count, status, top_gdp, disturbed, prev>>

\* services.py:41 and :115-124: the gather returns and the results become the
\* rate map.
ResolveRates(p) ==
    /\ pc[p] = "fetched"
    /\ LoopFree(p)
    /\ gather_done(unique_currency_codes(raw[p]), lookups[p])
    /\ LET gathered == gather(lookups[p])
       IN  IF gathered.raised
           THEN Finish(p, "DomainError")
           ELSE /\ cached_rates' = [cached_rates EXCEPT ![p] =
                                      rates_from_results(gathered.results)]
                /\ pc' = [pc EXCEPT ![p] = "resolved"]
                /\ RefreshStep
                /\ UNCHANGED <<raw, lookups, countries, count, status, top_gdp, cyc,
                               src_failed, disturbed, prev>>
    /\ UNCHANGED <<store, image, clock, cycles>>

\* services.py:48-99: the second pass builds the entities.
Enrich(p) ==
    /\ pc[p] = "resolved"
    /\ LoopFree(p)
    /\ \E factors \in FactorChoices(raw[p], cached_rates[p]) :
       \E stamps \in StampChoices(raw[p], clock) :
        LET r == enrich_from(raw[p], cached_rates[p], factors, stamps, cyc[p], 1)
        IN  /\ clock' = IF Len(raw[p]) = 0 THEN clock ELSE stamps[Len(raw[p])]
            /\ IF r.raised
               THEN Finish(p, "ZeroDivisionError")
               ELSE /\ countries' = [countries EXCEPT ![p] = r.countries]
                    /\ cached_rates' = [cached_rates EXCEPT ![p] = NoRates]
                    /\ pc' = [pc EXCEPT ![p] = "enriched"]
                    /\ RefreshStep
                    /\ UNCHANGED <<raw, lookups, count, status, top_gdp, cyc, src_failed,
                                   disturbed, prev>>
    /\ UNCHANGED <<store, image, cycles>>

\* repositories.py:109-111: DELETE every row, commit.
SaveDelete(p) ==
    /\ pc[p] = "enriched"
    /\ LoopFree(p)
    /\ store' = delete_all(store)
    /\ pc' = [pc EXCEPT ![p] = "deleted"]
    /\ Disturb(p)
    /\ RefreshStep
    /\ UNCHANGED <<image, clock, cycles, cyc, raw, src_failed, lookups, cached_rates,
                   countries, count, status, top_gdp, prev>>

\* repositories.py:115-123: bulk INSERT, commit, return the number of models.
\* A rejected INSERT raises out of execute and its transaction is rolled back
\* when the session closes (DI.py:28-34).
SaveInsert(p) ==
    /\ pc[p] = "deleted"
    /\ LoopFree(p)
    /\ LET models_to_save == [i \in 1..Len(countries[p]) |-> to_model(countries[p][i])]
       IN  IF ViolatesUniqueName(store, models_to_save)
           THEN /\ Finish(p, "IntegrityError")
                /\ UNCHANGED store
           ELSE /\ store' = store \cup {models_to_save[i] : i \in 1..Len(models_to_save)}
                /\ count' = [count EXCEPT ![p] = Len(models_to_save)]
                /\ prev' = Some(LastReplace(prev, raw[p], lookups[p], models_to_save))
                /\ countries' = [countries EXCEPT ![p] = <<>>]
                /\ pc' = [pc EXCEPT ![p] = "saved"]
                /\ Disturb(p)
                /\ RefreshStep
                /\ UNCHANGED <<raw, lookups, cached_rates, status, top_gdp, cyc, src_failed>>
    /\ UNCHANGED <<image, clock, cycles>>

\* services.py:173: total, last_refresh_time = get_status().
ReadStatus(p) ==
    /\ pc[p] = "saved"
    /\ LoopFree(p)
    /\ status' = [status EXCEPT ![p] = get_status(store)]
    /\ pc' = [pc EXCEPT ![p] = "status"]
    /\ RefreshStep
    /\ UNCHANGED <<store, image, clock, cycles, cyc, raw, src_failed, lookups, cached_rates,
                   countries, count, top_gdp, disturbed, prev>>

\* services.py:175-182: all rows by gdp_desc, the first five kept.
ReadTop(p) ==
    /\ pc[p] = "status"
    /\ LoopFree(p)
    /\ \E all_countries \in get_countries(store, NoFilters, Some("gdp_desc")) :
        top_gdp' = [top_gdp EXCEPT ![p] = top_gdp_of(all_countries)]
    /\ pc' = [pc EXCEPT ![p] = "top"]
    /\ RefreshStep
    /\ UNCHANGED <<store, image, clock, cycles, cyc, raw, src_failed, lookups, cached_rates,
                   countries, count, status, disturbed, prev>>

\* services.py:185-193: the image is generated when a timestamp was read, and
\* the count is returned.  An exception of the generator propagates.
Render(p) ==
    /\ pc[p] = "top"
    /\ LoopFree(p)
    /\ IF status[p].last # None
       THEN \E rendered \in BOOLEAN :
              IF rendered
              THEN /\ image' = Some(generate_summary_image(status[p].total, top_gdp[p],
                                                           status[p].last[1]))
                   /\ Finish(p, "")
              ELSE /\ image' = image
                   /\ Finish(p, "RenderError")
       ELSE /\ image' = image
            /\ Finish(p, "")
    /\ UNCHANGED <<store, clock, cycles>>

\* ------------------------------------------------------ threadpool endpoints
\* The requests the endpoints get while refreshes run (system specification).
QueryNames == {"A"}
SystemListRequests == { [NoRequest EXCEPT !.sort = Some("gdp_desc")] }

\* The requests the endpoints get in the query specification: names that
\* equal a stored name, differ from it in letter case only, or are absent;
\* every sort key the repository knows, keys it does not know, none; filter
\* values equal to a stored value, differing in case only, or empty.
LookupNames == {"A", "a", "B", "Z"}
ListRequests ==
    { [NoRequest EXCEPT !.sort = k] :
        k \in {None, Some("gdp_desc"), Some("pop_desc"), Some("population_desc"),
               Some("name_desc"), Some("name_asc")} }
    \cup { [NoRequest EXCEPT !.region = r] : r \in {Some("africa"), Some("Africa"), Some("")} }
    \cup { [NoRequest EXCEPT !.currency = c] : c \in {Some("XYZ"), Some("USD")} }
    \cup { [NoRequest EXCEPT !.region = Some("Africa"), !.currency = Some("xyz")] }

\* router.py:160-165: only the non-empty parameters become filters.
list_filters(region, currency) ==
    [region |-> IF Truthy(region) THEN region ELSE None,
     currency |-> IF Truthy(currency) THEN currency ELSE None]

Unchanged_refresh ==
    UNCHANGED <<image, clock, cycles, pc, cyc, raw, src_failed, lookups, cached_rates,
                countries, count, status, top_gdp, prev>>

\* router.py:211-217 and services.py:201-209: GET /status.
ApiStatus ==
    /\ lastOp' = "status"
    /\ resp' = [NoResp EXCEPT !.code = 200, !.total = get_status(store).total,
                              !.last = get_status(store).last]
    /\ Unchanged_refresh
    /\ UNCHANGED <<store, disturbed>>

\* router.py:149-167: GET /countries.
ApiList(requests) ==
    /\ \E request \in requests :
       \E result \in get_countries(store, list_filters(request.region, request.currency),
                                   request.sort) :
        resp' = [NoResp EXCEPT !.code = 200, !.rows = result, !.request = request]
    /\ lastOp' = "list"
    /\ Unchanged_refresh
    /\ UNCHANGED <<store, disturbed>>

\* router.py:170-180: GET /countries/{name}.
ApiGetByName(names) ==
    /\ \E name \in names :
        IF get_country_by_name(store, name) = {}
        THEN resp' = [NoResp EXCEPT !.code = 404, !.request.name = name]
        ELSE \E model \in get_country_by_name(store, name) :
                resp' = [NoResp EXCEPT !.code = 200, !.rows = <<model>>,
                                       !.request.name = name]
    /\ lastOp' = "get"
    /\ Unchanged_refresh
    /\ UNCHANGED <<store, disturbed>>

\* router.py:184-197: DELETE /countries/{name}.
ApiDelete(names) ==
    /\ \E name \in names :
        /\ store' = delete_country_by_name(store, name)
        /\ resp' = [NoResp EXCEPT !.code = IF store' # store THEN 200 ELSE 404,
                                  !.request.name = name]
    /\ Disturb(0)
    /\ lastOp' = "delete"
    /\ Unchanged_refresh

\* Mutant of Routes: /countries/image is declared before /countries/{name}.
Routes_image_first ==
    << [method |-> "GET", path |-> <<"countries">>, endpoint |-> "list_countries"],
       [method |-> "GET", path |-> <<"countries", "image">>, endpoint |-> "get_summary_image"],
       [method |-> "GET", path |-> <<"countries", "{name}">>, endpoint |-> "get_country_by_name"],
       [method |-> "DELETE", path |-> <<"countries", "{name}">>,
        endpoint |-> "delete_country_by_name"],
       [method |-> "POST", path |-> <<"countries", "refresh">>, endpoint |-> "refresh_data"],
       [method |-> "GET", path |-> <<"status">>, endpoint |-> "get_api_status"] >>

\* router.py:149-221: the routes in the order of their decorators.
Routes ==
    << [method |-> "GET", path |-> <<"countries">>, endpoint |-> "list_countries"],
       [method |-> "GET", path |-> <<"countries", "{name}">>, endpoint |-> "get_country_by_name"],
       [method |-> "DELETE", path |-> <<"countries", "{name}">>,
        endpoint |-> "delete_country_by_name"],
       [method |-> "POST", path |-> <<"countries", "refresh">>, endpoint |-> "refresh_data"],
       [method |-> "GET", path |-> <<"status">>, endpoint |-> "get_api_status"],
       [method |-> "GET", path |-> <<"countries", "image">>, endpoint |-> "get_summary_image"] >>

\* A path segment in braces is a path parameter and matches any segment.
PathMatches(pattern, path) ==
    /\ Len(pattern) = Len(path)
    /\ \A i \in 1..Len(path) : pattern[i] = "{name}" \/ pattern[i] = path[i]

\* The router hands a request to the first declared route that matches it.
dispatch(method, path) ==
    LET matching == { i \in 1..Len(Routes) :
                        Routes[i].method = method /\ PathMatches(Routes[i].path, path) }
    IN  Routes[CHOOSE i \in matching : \A j \in matching : i <= j].endpoint

\* GET /countries/image, answered by the endpoint the router dispatches it to:
\* router.py:220-259 (404 until cache/summary.png exists) or router.py:170-180
\* with name = "image".
ApiGetImage ==
    /\ IF dispatch("GET", <<"countries", "image">>) = "get_summary_image"
       THEN resp' = [NoResp EXCEPT !.code = IF image = None THEN 404 ELSE 200]
       ELSE IF get_country_by_name(store, "image") = {}
       THEN resp' = [NoResp EXCEPT !.code = 404, !.request.name = "image"]
       ELSE \E model \in get_country_by_name(store, "image") :
               resp' = [NoResp EXCEPT !.code = 200, !.rows = <<model>>,
                                      !.request.name = "image"]
    /\ lastOp' = "image"
    /\ Unchanged_refresh
    /\ UNCHANGED <<store, disturbed>>

Next ==
    \/ \E p \in Workers :
        \/ Fetch(p)
        \/ LookupDone(p)
        \/ ResolveRates(p)
        \/ Enrich(p)
        \/ SaveDelete(p)
        \/ SaveInsert(p)
        \/ ReadStatus(p)
        \/ ReadTop(p)
        \/ Render(p)
    \/ ApiStatus
    \/ ApiList(SystemListRequests)
    \/ ApiGetByName(QueryNames)
    \/ ApiDelete(QueryNames)
    \/ ApiGetImage

Spec == Init /\ [][Next]_vars

\* ------------------------------------------------ enrichment specification
\* FetchCountriesService.execute from line 29 on, for every raw_data of at most
\* MaxRawLen records over RawRecords.
InitEnrich ==
    /\ store = {}
    /\ image = None
    /\ clock = 0
    /\ cycles = 1
    /\ pc = [p \in Workers |-> IF p = 1 THEN "fetched" ELSE "idle"]
    /\ cyc = [p \in Workers |-> IF p = 1 THEN 1 ELSE 0]
    /\ raw \in {[p \in Workers |-> IF p = 1 THEN d ELSE <<>>] :
                    d \in SeqsUpTo(RawRecords, MaxRawLen)}
    /\ src_failed = [p \in Workers |-> FALSE]
    /\ lookups = [p \in Workers |-> NoRates]
    /\ cached_rates = [p \in Workers |-> NoRates]
    /\ countries = [p \in Workers |-> <<>>]
    /\ count = [p \in Workers |-> 0]
    /\ status = [p \in Workers |-> NoStatus]
    /\ top_gdp = [p \in Workers |-> <<>>]
    /\ disturbed = [p \in Workers |-> FALSE]
    /\ lastOp = "none"
    /\ resp = NoResp
    /\ prev = None

NextEnrich == LookupDone(1) \/ ResolveRates(1) \/ Enrich(1)

SpecEnrich == InitEnrich /\ [][NextEnrich]_vars

\* ----------------------------------------------------- query specification
\* The read and delete endpoints over every table a completed refresh of one
\* of QueryDataSets leaves, with no refresh running.
RecD == Raw(Some("D"), Some(1000), Some(<<Cur("USD")>>), Some("africa"))

QueryDataSets == { <<RecA, RecB>>, <<RecB, RecD, RecA>>, <<RecC, RecA>> }

InitQuery ==
    /\ \E raw_data \in QueryDataSets :
       \E responses \in [unique_currency_codes(raw_data) -> RateResponses] :
        LET results == [code \in unique_currency_codes(raw_data) |->
                            get_exchange_rate(code, responses[code])]
            rates == rates_from_results(gather(results).results)
        IN  \E factors \in FactorChoices(raw_data, rates) :
            \E stamps \in StampChoices(raw_data, 0) :
              LET r == enrich_from(raw_data, rates, factors, stamps, 1, 1)
                  models_to_save == [i \in 1..Len(r.countries) |-> to_model(r.countries[i])]
              IN  /\ ~r.raised
                  /\ ~ViolatesUniqueName(delete_all({}), models_to_save)
                  /\ store = {models_to_save[i] : i \in 1..Len(models_to_save)}
                  /\ prev = Some(LastReplace(None, raw_data, results, models_to_save))
                  /\ clock = stamps[Len(raw_data)]
    /\ \E all_countries \in get_countries(store, NoFilters, Some("gdp_desc")) :
          image = Some(generate_summary_image(get_status(store).total,
                                              top_gdp_of(all_countries),
                                              get_status(store).last[1]))
    /\ cycles = 1
    /\ pc = [p \in Workers |-> "idle"]
    /\ cyc = [p \in Workers |-> 0]
    /\ raw = [p \in Workers |-> <<>>]
    /\ src_failed = [p \in Workers |-> FALSE]
    /\ lookups = [p \in Workers |-> NoRates]
    /\ cached_rates = [p \in Workers |-> NoRates]
    /\ countries = [p \in Workers |-> <<>>]
    /\ count = [p \in Workers |-> 0]
    /\ status = [p \in Workers |-> NoStatus]
    /\ top_gdp = [p \in Workers |-> <<>>]
    /\ disturbed = [p \in Workers |-> FALSE]
    /\ lastOp = "refresh"
    /\ resp = [NoResp EXCEPT !.code = 200, !.total = Cardinality(store)]

NextQuery ==
    \/ ApiStatus
    \/ ApiList(ListRequests)
    \/ ApiGetByName(LookupNames)
    \/ ApiDelete(LookupNames)

SpecQuery == InitQuery /\ [][NextQuery]_vars

\* ------------------------------------------------------------------ claims
AfterDelete == {"deleted", "saved", "status", "top"}

\* C1: when the catalog fetch fails, the refresh never reaches the delete step
\* (it fails with SourceUnavailable and the store is left as it was).
C1_FailedFetchNeverDeletes ==
    \A p \in Workers : src_failed[p] => pc[p] \notin AfterDelete

C3_ReplaceInvisibleToReaders ==
    lastOp \in {"status", "list", "get"} => \A p \in Workers : pc[p] # "deleted"

\* C4: no two rows of the table have the same name.
C4_NamesUnique ==
    \A r1, r2 \in store : r1.name = r2.name => r1 = r2

\* A refresh whose records repeat a name was rejected at its insert, after an
\* earlier cycle had filled the table and rendered its image.
C4_Witness ==
    /\ lastOp = "refresh"
    /\ resp.error = "IntegrityError"
    /\ image # None

\* C5: all rows inserted by one refresh cycle carry the same lastRefreshedAt.
C5_OneTimestampPerCycle ==
    \A r1, r2 \in store :
        r1.id[1] = r2.id[1] => r1.last_refreshed_at = r2.last_refreshed_at

\* C6: GET /status reports the current number of rows and the greatest
\* lastRefreshedAt of the current rows (none for an empty table), and a
\* successful delete-by-name lowers the reported total by one.
C6_StatusIsLiveAggregate ==
    [][ /\ lastOp' = "status" =>
              /\ resp'.total = Cardinality(store')
              /\ store' = {} => resp'.last = None
              /\ store' # {} =>
                    /\ resp'.last # None
                    /\ \E r \in store' : r.last_refreshed_at = resp'.last[1]
                    /\ \A r \in store' : r.last_refreshed_at <= resp'.last[1]
        /\ (lastOp' = "delete" /\ resp'.code = 200) =>
              get_status(store').total = get_status(store).total - 1
      ]_vars

\* GET /status answered 1 for a table that a delete-by-name left with row B only.
C6_Witness ==
    /\ lastOp = "status"
    /\ resp.total = 1
    /\ resp.last # None
    /\ \E r \in store : r.name = "B"

\* C7: a refresh that no other writer interleaves with leaves exactly the
\* records of its enrichment in the table, none of an earlier cycle, and
\* returns their number.
C7_RefreshReplacesStore ==
    [][ \A p \in Workers :
          /\ (pc[p] = "deleted" /\ pc'[p] = "saved" /\ ~disturbed[p]) =>
                /\ store' = {countries[p][i] : i \in 1..Len(countries[p])}
                /\ count'[p] = Cardinality(store')
          /\ (pc[p] = "top" /\ pc'[p] = "idle" /\ resp'.code = 200 /\ ~disturbed[p]) =>
                /\ resp'.total = Cardinality(store')
                /\ \A r \in store' : r.id[1] = cyc[p]
      ]_vars

\* The second cycle, undisturbed, is about to return with its own rows in the
\* table, after an earlier cycle's rows had been rendered into the image.
C7_Witness ==
    \E p \in Workers :
        /\ pc[p] = "top"
        /\ ~disturbed[p]
        /\ cyc[p] = 2
        /\ store # {}
        /\ \A r \in store : r.id[1] = 2
        /\ image # None
        /\ \E i \in DOMAIN image[1].top : \A r \in store : r.name # image[1].top[i].name

\* C8: a failure of the summary renderer does not fail the refresh.
C8_RenderFailureDoesNotFailRefresh ==
    lastOp = "refresh" => resp.error # "RenderError"

\* C9: the top-5 list handed to the renderer is ordered by estimatedGdp
\* descending with null estimatedGdp last.
C9_TopFiveNullsLast ==
    \A p \in Workers : pc[p] = "top" =>
        \A i, j \in DOMAIN top_gdp[p] :
            i < j =>
                \/ top_gdp[p][j].estimated_gdp = None
                \/ /\ top_gdp[p][i].estimated_gdp # None
                   /\ top_gdp[p][i].estimated_gdp[1] >= top_gdp[p][j].estimated_gdp[1]

\* C10: a raw record with a missing or empty name, or a missing or negative
\* population, gives no output record whatever its currencies; a record with
\* population 0 and a non-empty name gives one.
C10_InvalidRecordsDropped ==
    \A p \in Workers : pc[p] = "enriched" =>
        \A i \in 1..Len(raw[p]) :
            LET item == raw[p][i]
                produced == \E k \in 1..Len(countries[p]) : countries[p][k].id = <<cyc[p], i>>
            IN  /\ (item.name = None \/ item.name = Some("")) => ~produced
                /\ item.population = None => ~produced
                /\ (item.population # None /\ item.population[1] < 0) => ~produced
                /\ (item.name \notin {None, Some("")} /\ item.population = Some(0)) =>
                      \E k \in 1..Len(countries[p]) :
                          /\ countries[p][k].id = <<cyc[p], i>>
                          /\ countries[p][k].name = item.name[1]
                          /\ countries[p][k].population = 0

\* A record with population -5 and a currency code was dropped and a record
\* with population 0 was kept.
C10_Witness ==
    /\ pc[1] = "enriched"
    /\ Len(raw[1]) = 2
    /\ raw[1][1].name = Some("A")
    /\ raw[1][1].population = Some(-5)
    /\ raw[1][1].currencies = Some(<<Cur("XYZ")>>)
    /\ raw[1][2].population = Some(0)
    /\ raw[1][2].name = Some("A")
    /\ Len(countries[1]) = 1

\* ------------------------------------------------- claims on the enrichment
\* The positions of raw_data whose record has a non-empty name and a
\* population that is present and not negative.
ValidPositions(raw_data) ==
    { i \in 1..Len(raw_data) :
        /\ raw_data[i].name \notin {None, Some("")}
        /\ raw_data[i].population # None
        /\ raw_data[i].population[1] >= 0 }

\* The positions whose record carries a code on its first currency descriptor.
CodedPositions(raw_data) ==
    { i \in ValidPositions(raw_data) :
        /\ raw_data[i].currencies \notin {None, Some(<<>>)}
        /\ raw_data[i].currencies[1][1].code \notin {None, Some("")} }

\* The step of worker p in which its enrichment returns its output.
EnrichReturns(p) == pc[p] = "resolved" /\ pc'[p] = "enriched"

\* C11: the enrichment output has exactly one record for each raw record that
\* passes the name/population validation, in input order, whatever the
\* currency data and the outcome of the rate resolution.
C11_OneOutputPerValidRecord ==
    \A p \in Workers : pc[p] = "enriched" =>
        /\ Len(countries[p]) = Cardinality(ValidPositions(raw[p]))
        /\ \A k \in 1..Len(countries[p]) :
              /\ countries[p][k].id[2] \in ValidPositions(raw[p])
              /\ countries[p][k].name = raw[p][countries[p][k].id[2]].name[1]
              /\ countries[p][k].population = raw[p][countries[p][k].id[2]].population[1]
        /\ \A k, l \in 1..Len(countries[p]) :
              k < l => countries[p][k].id[2] < countries[p][l].id[2]

\* Two valid records, the first with a code whose lookup failed and the second
\* without a currency, both in the output.
C11_Witness ==
    /\ pc[1] = "enriched"
    /\ Len(raw[1]) = 2
    /\ Len(countries[1]) = 2
    /\ countries[1][1].currency_code # None
    /\ countries[1][1].exchange_rate = None
    /\ countries[1][2].currency_code = None

\* C12: a valid raw record with no currency code (no currencies list, an empty
\* list, or no code on the first entry) gives an output record with
\* currencyCode None, exchangeRate None and estimatedGdp 0.0.
C12_NoCurrencyGivesZeroGdp ==
    \A p \in Workers : pc[p] = "enriched" =>
        \A i \in ValidPositions(raw[p]) \ CodedPositions(raw[p]) :
            \E k \in 1..Len(countries[p]) :
                /\ countries[p][k].id = <<cyc[p], i>>
                /\ countries[p][k].currency_code = None
                /\ countries[p][k].exchange_rate = None
                /\ countries[p][k].estimated_gdp = Some(0)

\* The output of a record with population 1000 and an empty currencies list,
\* next to one whose first descriptor has no code.
C12_Witness ==
    /\ pc[1] = "enriched"
    /\ Len(raw[1]) = 2
    /\ raw[1][1].name = Some("A")
    /\ raw[1][1].population = Some(1000)
    /\ raw[1][1].currencies = Some(<<>>)
    /\ raw[1][2].currencies = Some(<<NoCurrency, Cur("XYZ")>>)
    /\ Len(countries[1]) = 2
    /\ countries[1][1].estimated_gdp = Some(0)

\* C13: a valid raw record whose currency code failed resolution gives an
\* output record with that currencyCode, exchangeRate None and estimatedGdp
\* None (not 0.0).
C13_FailedRateGivesNullGdp ==
    [][ \A p \in Workers : EnrichReturns(p) =>
          \A i \in CodedPositions(raw[p]) :
              lookups[p][raw[p][i].currencies[1][1].code[1]].raised =>
                  \E k \in 1..Len(countries'[p]) :
                      /\ countries'[p][k].id = <<cyc[p], i>>
                      /\ countries'[p][k].currency_code = raw[p][i].currencies[1][1].code
                      /\ countries'[p][k].exchange_rate = None
                      /\ countries'[p][k].estimated_gdp = None
      ]_vars

\* The output holds a record with population 1000 and code XYZ without rate
\* and without GDP.
C13_Witness ==
    /\ pc[1] = "enriched"
    /\ \E k \in 1..Len(countries[1]) :
          /\ countries[1][k].population = 1000
          /\ countries[1][k].currency_code = Some("XYZ")
          /\ countries[1][k].exchange_rate = None
          /\ countries[1][k].estimated_gdp = None

\* The range of the GDP factor as the claim states it, and as uniform() draws it.
FactorsHalfOpen == 1000..1999
FactorsClosed == 1000..2000

\* C14 (as stated): a valid raw record whose code resolved to a rate gives an
\* output record with that exchangeRate and estimatedGdp = population * factor
\* / rate for some factor with 1000 <= factor < 2000; for population 1000 and
\* rate 2.0 the estimatedGdp is in [500000, 1000000).
C14_GdpFactorBelow2000 ==
    [][ \A p \in Workers : EnrichReturns(p) =>
          \A i \in CodedPositions(raw[p]) :
              LET lookup == lookups[p][raw[p][i].currencies[1][1].code[1]]
                  population == raw[p][i].population[1]
              IN  ~lookup.raised =>
                    \E k \in 1..Len(countries'[p]) :
                      /\ countries'[p][k].id = <<cyc[p], i>>
                      /\ countries'[p][k].exchange_rate = Some(lookup.value)
                      /\ \E factor \in FactorsHalfOpen :
                            countries'[p][k].estimated_gdp =
                                Some((population * factor) \div lookup.value)
                      /\ (population = 1000 /\ lookup.value = 2) =>
                            /\ countries'[p][k].estimated_gdp[1] >= 500000
                            /\ countries'[p][k].estimated_gdp[1] < 1000000
      ]_vars

\* C14 (amended): the same with 1000 <= factor <= 2000, and for population
\* 1000 and rate 2.0 the estimatedGdp in [500000, 1000000].
C14_GdpFactorUpTo2000 ==
    [][ \A p \in Workers : EnrichReturns(p) =>
          \A i \in CodedPositions(raw[p]) :
              LET lookup == lookups[p][raw[p][i].currencies[1][1].code[1]]
                  population == raw[p][i].population[1]
              IN  ~lookup.raised =>
                    \E k \in 1..Len(countries'[p]) :
                      /\ countries'[p][k].id = <<cyc[p], i>>
                      /\ countries'[p][k].exchange_rate = Some(lookup.value)
                      /\ \E factor \in FactorsClosed :
                            countries'[p][k].estimated_gdp =
                                Some((population * factor) \div lookup.value)
                      /\ (population = 1000 /\ lookup.value = 2) =>
                            /\ countries'[p][k].estimated_gdp[1] >= 500000
                            /\ countries'[p][k].estimated_gdp[1] <= 1000000
      ]_vars

\* The record with population 1000 and code XYZ, resolved to 2, got the GDP
\* 1000 * 2000 / 2.
C14_Witness ==
    /\ pc[1] = "enriched"
    /\ \E k \in 1..Len(countries[1]) :
          /\ countries[1][k].population = 1000
          /\ countries[1][k].exchange_rate = Some(2)
          /\ countries[1][k].estimated_gdp = Some(1000000)

\* ------------------------------------------------ claims on the query layer
\* Letter case folded away, for the strings of the model.
CaseFold(s) ==
    CASE s \in {"A", "a"} -> "a"
      [] s \in {"Africa", "africa"} -> "africa"
      [] s \in {"USD", "usd"} -> "usd"
      [] s \in {"XYZ", "xyz"} -> "xyz"
      [] OTHER -> s

\* Whether an optional column value equals a filter value ignoring letter case.
EqualsIgnoringCase(column, value) ==
    column # None /\ CaseFold(column[1]) = CaseFold(value)

C16_GetByNameIgnoresCase ==
    lastOp = "get" =>
        LET matching == {r \in store : CaseFold(r.name) = CaseFold(resp.request.name)}
        IN  /\ matching = {} => resp.code = 404
            /\ matching # {} => (resp.code = 200 /\ resp.rows[1] \in matching)

\* C17: list with a region and/or currency filter returns exactly the rows
\* whose region (currency code) equals the filter value ignoring letter case.
C17_FiltersIgnoreCase ==
    lastOp = "list" =>
        {resp.rows[i] : i \in 1..Len(resp.rows)} =
            { r \in store :
                /\ resp.request.region # None =>
                      EqualsIgnoringCase(r.region, resp.request.region[1])
                /\ resp.request.currency # None =>
                      EqualsIgnoringCase(r.currency_code, resp.request.currency[1]) }

\* The alphabetical rank of a name of the model, letter case ignored.
NameRank(name) ==
    CASE name \in {"A", "a"} -> 1 [] name = "B" -> 2 [] name = "C" -> 3 [] name = "D" -> 4
      [] OTHER -> 0

\* Whether row a may come before row b under the sort key, as the claim
\* lists the keys: unset or unknown keys order by name ascending.
SortedAsRequested(sort, a, b) ==
    IF sort = Some("gdp_desc")
    THEN a.estimated_gdp = None \/ b.estimated_gdp = None
         \/ a.estimated_gdp[1] >= b.estimated_gdp[1]
    ELSE IF sort = Some("gdp_asc")
    THEN a.estimated_gdp = None \/ b.estimated_gdp = None
         \/ a.estimated_gdp[1] <= b.estimated_gdp[1]
    ELSE IF sort = Some("population_desc") THEN a.population >= b.population
    ELSE IF sort = Some("population_asc") THEN a.population <= b.population
    ELSE IF sort = Some("name_desc") THEN NameRank(a.name) >= NameRank(b.name)
    ELSE NameRank(a.name) <= NameRank(b.name)

\* C18: list orders its result by the requested sort key, and by name
\* ascending when the key is unset or unknown.
C18_ListSortedAsRequested ==
    lastOp = "list" =>
        \A i, j \in 1..Len(resp.rows) :
            i < j => SortedAsRequested(resp.request.sort, resp.rows[i], resp.rows[j])

\* C19: resolving the code USD always returns 1.0, also when the rate service
\* is unreachable or reports failure (no network call is involved).
C19_UsdAlwaysResolves ==
    \A p \in Workers :
        (pc[p] = "resolved" /\ "USD" \in DOMAIN lookups[p]) =>
            lookups[p]["USD"] = Returned(1)

\* C20: POST /countries/refresh answers 503 when the catalog fetch failed, and
\* 200 with the count only when it succeeded.
C20_Refresh503WhenSourceDown ==
    [][ \A p \in Workers :
          (pc[p] # "idle" /\ pc'[p] = "idle" /\ src_failed[p]) => resp'.code = 503
      ]_vars

\* ------------------------------------------ claims on the rest of the service
\* C21: GET /countries/image answers 404 as long as no summary image was
\* generated and 200 with the image afterwards; it is answered by the image
\* handler, not by get-by-name with name = "image".
C21_ImageServedOnceGenerated ==
    lastOp = "image" =>
        /\ image = None => resp.code = 404
        /\ image # None => (resp.code = 200 /\ resp.request.name # "image")

\* C22: a refresh that completes its replace from the same catalog data and
\* the same lookup results as the replace completed before it returns the same
\* count and leaves, for every name, the same population, currency code,
\* exchange rate, capital, region and flag URL in the table.
C22_RepeatedRefreshSameData ==
    [][\A p \in Workers :
         (/\ pc[p] = "deleted"
          /\ pc'[p] = "saved"
          /\ prev # None
          /\ prev[1].raw = raw[p]
          /\ prev[1].results = lookups[p])
         => /\ count'[p] = prev[1].count
            /\ {non_random_fields(m) : m \in store'} = prev[1].rows]_vars

\* The second of two equal replaces has inserted a row with a rate, whose GDP
\* differs from the one the first run's image shows for the same name.
C22_Witness ==
    \E p \in Workers :
        /\ pc[p] = "saved"
        /\ prev # None
        /\ prev[1].repeats
        /\ image # None
        /\ \E m \in store : \E i \in DOMAIN image[1].top :
             /\ m.exchange_rate # None
             /\ image[1].top[i].name = m.name
             /\ image[1].top[i].estimated_gdp # m.estimated_gdp

\* C23: the rate resolver is invoked for the first-currency codes of the
\* records that survive validation, once each, and for no other code: when the
\* gather has returned, the lookups made are exactly those codes.
C23_ResolvesOnlySurvivingCodes ==
    \A p \in Workers :
        pc[p] = "resolved" =>
            DOMAIN lookups[p] =
                {first_currency_code(raw[p][i])[1] : i \in CodedPositions(raw[p])}

\* Two refreshes are in flight at once: both wait in their gather.
RefreshesOverlap == \A p \in Workers : pc[p] = "fetched"

\* On the one event loop no refresh deletes between the delete and the insert
\* of another refresh.
ReplaceStepsNotInterleaved ==
    [][\A p \in Workers : \A q \in Workers \ {p} :
         pc[p] = "deleted" => ~(pc[q] = "enriched" /\ pc'[q] = "deleted")]_vars

\* All rows of the table were inserted by the same refresh cycle.
RowsOfOneCycle == \A m1 \in store : \A m2 \in store : m1.id[1] = m2.id[1]

\* The step of worker p is one of its own refresh.
OwnStep(p) == pc'[p] # pc[p] \/ lookups'[p] # lookups[p]

\* Every lookup of worker p's batch has returned or raised.
AllLookupsDone(p) == DOMAIN lookups[p] = unique_currency_codes(raw[p])

C26_FailedInsertLeavesStoreEmpty ==
    [][\A p \in Workers :
         (pc[p] = "deleted" /\ pc'[p] = "idle") =>
             /\ lastOp' = "refresh"
             /\ resp'.code = 500
             /\ store' = {}]_vars

\* A refresh was rejected at its insert after an earlier cycle had inserted
\* rows; the table is empty.
C26_Witness ==
    /\ lastOp = "refresh"
    /\ resp.error = "IntegrityError"
    /\ prev # None
    /\ prev[1].count > 0
    /\ store = {}

\* C27: only the first currency descriptor of a record is considered: when it
\* has no code the output record has no currency (currencyCode None, GDP 0.0),
\* whatever later descriptors carry, and when it has a code the output record
\* carries that code.
C27_OnlyFirstCurrencyConsidered ==
    \A p \in Workers : pc[p] = "enriched" =>
        \A i \in ValidPositions(raw[p]) :
            raw[p][i].currencies \notin {None, Some(<<>>)} =>
                \E k \in 1..Len(countries[p]) :
                    /\ countries[p][k].id = <<cyc[p], i>>
                    /\ IF raw[p][i].currencies[1][1].code \in {None, Some("")}
                       THEN /\ countries[p][k].currency_code = None
                            /\ countries[p][k].exchange_rate = None
                            /\ countries[p][k].estimated_gdp = Some(0)
                       ELSE countries[p][k].currency_code = raw[p][i].currencies[1][1].code

\* The output of a record whose first descriptor has no code and whose second
\* has one, followed by that of a record with two coded descriptors.
C27_Witness ==
    /\ pc[1] = "enriched"
    /\ Len(raw[1]) = 2
    /\ raw[1][1].currencies = Some(<<NoCurrency, Cur("XYZ")>>)
    /\ raw[1][2].currencies = Some(<<Cur("usd"), Cur("XYZ")>>)
    /\ Len(countries[1]) = 2
    /\ countries[1][1].currency_code = None
    /\ countries[1][1].estimated_gdp = Some(0)
    /\ countries[1][2].currency_code = Some("usd")

\* C28: an exception raised during the enrichment, such as the division by a
\* resolved rate of 0, ends the refresh before its delete: the refresh answers
\* with the error, the table is as it was and no image is rendered.
C28_EnrichmentFailureLeavesStore ==
    [][\A p \in Workers :
         /\ (/\ pc[p] = "resolved"
             /\ pc'[p] # "resolved"
             /\ \E i \in CodedPositions(raw[p]) :
                  lookups[p][raw[p][i].currencies[1][1].code[1]] = Returned(0))
            => pc'[p] = "idle"
         /\ (pc[p] = "resolved" /\ pc'[p] = "idle") =>
                /\ lastOp' = "refresh"
                /\ resp'.code = 500
                /\ store' = store
                /\ image' = image]_vars

\* A refresh failed on a rate of 0 after an earlier cycle had filled the table
\* and rendered its image; rows and image are still there.
C28_Witness ==
    /\ lastOp = "refresh"
    /\ resp.code = 500
    /\ resp.error = "ZeroDivisionError"
    /\ store # {}
    /\ image # None

\* C29: the summary image is rendered at most once per refresh, in the step
\* that ends it, after the insert, the status read and the top-5 read, and only
\* when the status read returned a lastRefreshedAt; the status read of an
\* empty table returns none, so a refresh that inserted nothing renders
\* nothing, answers 200 and leaves an earlier image in place.
C29_RenderOnlyWithTimestamp ==
    [][/\ image' # image =>
            \E p \in Workers :
                pc[p] = "top" /\ pc'[p] = "idle" /\ status[p].last # None
       /\ \A p \in Workers :
            /\ (pc[p] = "saved" /\ pc'[p] = "status" /\ store = {}) =>
                   status'[p].last = None
            /\ (pc[p] = "top" /\ pc'[p] = "idle"
                    /\ (status[p].last = None \/ count[p] = 0)) =>
                   /\ image' = image
                   /\ resp'.code = 200]_vars

\* A refresh that inserted nothing has answered 200 with count 0; the table is
\* empty and the image of the cycle before it, which shows rows, is still there.
C29_Witness ==
    /\ lastOp = "refresh"
    /\ resp.code = 200
    /\ resp.total = 0
    /\ store = {}
    /\ image # None
    /\ image[1].total > 0

====
